---- MODULE Spec2Model ----
(***************************************************************************)
(* Model of src/src/main.ts: the skin "generator" front-end.               *)
(*                                                                         *)
(* Strings are sequences of one-character strings, so that trimming,       *)
(* whitespace removal, template concatenation and number formatting are    *)
(* computed and not assumed.                                               *)
(*                                                                         *)
(* The browser runs one task at a time and drains the microtask queue      *)
(* after each task.  Every action below is one task together with the      *)
(* microtasks it leaves behind: a user event (click, Enter, variant        *)
(* button) or the expiry of one delay() timer.                             *)
(***************************************************************************)
EXTENDS Integers, Sequences, FiniteSets

VARIABLES
  btnDisabled,          \* generateBtn.disabled
  btnText,              \* btnText.textContent
  spinnerHidden,        \* loadingSpinner has class 'hidden'
  statusLogHidden,      \* statusLog has class 'hidden'
  statusLog,            \* children of statusLog, in order
  resultHidden,         \* resultSection has class 'hidden'
  currentSkins,         \* let currentSkins
  currentViewer,        \* let currentViewer (NoViewer or a viewer object)
  currentVariantIndex,  \* let currentVariantIndex
  skinTitle,            \* skinTitle.textContent
  variantLabel,         \* variantLabel.textContent
  downloadHref,         \* downloadBtn.href
  skinViewerContainer,  \* children of skinViewerContainer
  variantControls,      \* children of variantControls, in order
  cycles,               \* the handleGenerate calls suspended at their await
  lastEvent,            \* history: the event dispatched by the last task
  settledSinceStart,    \* history: a cycle left its finally block since the last cycle start
  fetchPrompt,          \* direct call of fetchSkins: the raw text
  fetchResult           \* direct call of fetchSkins: what it returned

vars == <<btnDisabled, btnText, spinnerHidden, statusLogHidden, statusLog,
          resultHidden, currentSkins, currentViewer, currentVariantIndex,
          skinTitle, variantLabel, downloadHref, skinViewerContainer,
          variantControls, cycles, lastEvent, settledSinceStart,
          fetchPrompt, fetchResult>>

(***************************************************************************)
(* Bounds of the model.                                                    *)
(***************************************************************************)
\* longest text given to fetchSkins when it is exercised on its own
MaxQueryLen == 3
\* longest text typed into the prompt input
MaxPromptLen == 1
\* generation cycles that may be in flight at the same time
MaxCycles == 2

\* characters the texts are made of
QueryAlphabet == {"a", "b", "_", " "}
PromptAlphabet == {"a", "b", " "}

(***************************************************************************)
(* Strings.                                                                *)
(***************************************************************************)
\* what \s matches and trim() strips
Whitespace == {" ", "\t", "\n", "\r"}

Digits == <<"0", "1", "2", "3", "4", "5", "6", "7", "8", "9">>

RECURSIVE toString(_)
toString(n) ==
  IF n < 10 THEN <<Digits[n + 1]>>
  ELSE toString(n \div 10) \o <<Digits[(n % 10) + 1]>>

RECURSIVE TrimStart(_)
TrimStart(s) ==
  IF s # <<>> /\ Head(s) \in Whitespace THEN TrimStart(Tail(s)) ELSE s

RECURSIVE TrimEnd(_)
TrimEnd(s) ==
  IF s # <<>> /\ s[Len(s)] \in Whitespace
  THEN TrimEnd(SubSeq(s, 1, Len(s) - 1))
  ELSE s

\* String.prototype.trim
Trim(s) == TrimEnd(TrimStart(s))

\* s.replace(/\s+/g, '')
RemoveWhitespace(s) == SelectSeq(s, LAMBDA ch : ch \notin Whitespace)

\* every text over alphabet of at most n characters
TextsUpTo(alphabet, n) == UNION {[1..k -> alphabet] : k \in 0..n}

(***************************************************************************)
(* fetchSkins.                                                             *)
(***************************************************************************)
MinotarPrefix ==
  <<"h", "t", "t", "p", "s", ":", "/", "/", "m", "i", "n", "o", "t", "a", "r",
    ".", "n", "e", "t", "/", "s", "k", "i", "n", "/">>

NameMcPrefix ==
  <<"h", "t", "t", "p", "s", ":", "/", "/", "n", "a", "m", "e", "m", "c", ".",
    "c", "o", "m", "/", "p", "r", "o", "f", "i", "l", "e", "/">>

VariantPrefix == <<"V", "a", "r", "i", "a", "n", "t", " ">>

\* `Variant ${n}`
VariantTitle(n) == VariantPrefix \o toString(n)

\* the cap of the candidate loop
MaxVariants == 3

\* const baseName = query.trim().replace(/\s+/g, '')
BaseName(query) == RemoveWhitespace(Trim(query))

\* fault: the exact name no longer comes first
candidatesSwapped(baseName) ==
  << baseName \o <<"_">>,
     baseName,
     <<"T", "h", "e">> \o baseName,
     <<"I", "t", "z">> \o baseName,
     <<"R", "e", "a", "l">> \o baseName,
     baseName \o <<"1", "2", "3">>,
     baseName \o <<"P", "V", "P">>,
     baseName \o <<"G", "i", "r", "l">>,
     baseName \o <<"B", "o", "y">> >>

\* const candidates = [...]
candidates(baseName) ==
  << baseName,
     baseName \o <<"_">>,
     <<"T", "h", "e">> \o baseName,
     <<"I", "t", "z">> \o baseName,
     <<"R", "e", "a", "l">> \o baseName,
     baseName \o <<"1", "2", "3">>,
     baseName \o <<"P", "V", "P">>,
     baseName \o <<"G", "i", "r", "l">>,
     baseName \o <<"B", "o", "y">> >>

NoSkin == [imageUrl |-> <<>>, title |-> <<>>, detailLink |-> <<>>]

\* the record verifySkin builds for a user name
SkinOf(username, n) ==
  [imageUrl   |-> MinotarPrefix \o username,
   title      |-> VariantTitle(n),
   detailLink |-> NameMcPrefix \o username]

\* fault: every candidate is taken for a duplicate
verifySkinRejectsAll(username, validSkins, processedUrls) == NoSkin

\* verifySkin: NoSkin stands for null
verifySkin(username, validSkins, processedUrls) ==
  IF (MinotarPrefix \o username) \in processedUrls
  THEN NoSkin
  ELSE SkinOf(username, Len(validSkins) + 1)

\* fault: the loop never breaks
LoopDoneNoCap(validSkins) == FALSE

\* if (validSkins.length >= 3) break
LoopDone(validSkins) == Len(validSkins) >= MaxVariants

\* the for loop over the candidates, from candidate i on
RECURSIVE ProcessCandidates(_, _, _, _)
ProcessCandidates(cands, i, validSkins, processedUrls) ==
  IF i > Len(cands) \/ LoopDone(validSkins)
  THEN validSkins
  ELSE LET skin == verifySkin(cands[i], validSkins, processedUrls)
       IN  IF skin # NoSkin
           THEN ProcessCandidates(cands, i + 1, Append(validSkins, skin),
                                  processedUrls \cup {skin.imageUrl})
           ELSE ProcessCandidates(cands, i + 1, validSkins, processedUrls)

\* the records the loop accepted for a query
AcceptedSkins(query) ==
  ProcessCandidates(candidates(BaseName(query)), 1, <<>>, {})

\* the emergency fallback
WithFallback(query, validSkins) ==
  IF Len(validSkins) = 0
  THEN <<SkinOf(BaseName(query), 1)>>
  ELSE validSkins

\* validSkins.forEach((s, i) => s.title = `Variant ${i + 1}`)
Renumber(validSkins) ==
  [i \in 1..Len(validSkins) |->
     [validSkins[i] EXCEPT !.title = VariantTitle(i)]]

fetchSkins(query) == Renumber(WithFallback(query, AcceptedSkins(query)))

(***************************************************************************)
(* The page: the DOM nodes and globals main.ts reads and writes, as one    *)
(* record, so that the functions of main.ts compose as they are called.    *)
(***************************************************************************)
AI_LOGS ==
  << "Analyzing semantic request...",
     "Querying neural database...",
     "Synthesizing voxel geometry...",
     "Applying texture mappings...",
     "Optimizing color palette...",
     "Finalizing render..." >>

NoViewer == [created |-> FALSE, skin |-> <<>>]

Page ==
  [btnDisabled         |-> btnDisabled,
   btnText             |-> btnText,
   spinnerHidden       |-> spinnerHidden,
   statusLogHidden     |-> statusLogHidden,
   statusLog           |-> statusLog,
   resultHidden        |-> resultHidden,
   currentSkins        |-> currentSkins,
   currentViewer       |-> currentViewer,
   currentVariantIndex |-> currentVariantIndex,
   skinTitle           |-> skinTitle,
   variantLabel        |-> variantLabel,
   downloadHref        |-> downloadHref,
   skinViewerContainer |-> skinViewerContainer,
   variantControls     |-> variantControls]

\* the page after a task
Commit(p) ==
  /\ btnDisabled' = p.btnDisabled
  /\ btnText' = p.btnText
  /\ spinnerHidden' = p.spinnerHidden
  /\ statusLogHidden' = p.statusLogHidden
  /\ statusLog' = p.statusLog
  /\ resultHidden' = p.resultHidden
  /\ currentSkins' = p.currentSkins
  /\ currentViewer' = p.currentViewer
  /\ currentVariantIndex' = p.currentVariantIndex
  /\ skinTitle' = p.skinTitle
  /\ variantLabel' = p.variantLabel
  /\ downloadHref' = p.downloadHref
  /\ skinViewerContainer' = p.skinViewerContainer
  /\ variantControls' = p.variantControls

pageVars == <<btnDisabled, btnText, spinnerHidden, statusLogHidden, statusLog,
              resultHidden, currentSkins, currentViewer, currentVariantIndex,
              skinTitle, variantLabel, downloadHref, skinViewerContainer,
              variantControls>>

\* a message: fixed text, the interpolated query, fixed text
Message(pre, arg, post) == [pre |-> pre, arg |-> arg, post |-> post]

\* fault: loading does not disable the button
setLoadingLeavesButton(p, isLoading) ==
  IF isLoading
  THEN [p EXCEPT !.btnText = "PROCESSING", !.spinnerHidden = FALSE]
  ELSE [p EXCEPT !.btnDisabled = FALSE, !.btnText = "GENERATE",
                 !.spinnerHidden = TRUE]

setLoading(p, isLoading) ==
  IF isLoading
  THEN [p EXCEPT !.btnDisabled = TRUE, !.btnText = "PROCESSING",
                 !.spinnerHidden = FALSE]
  ELSE [p EXCEPT !.btnDisabled = FALSE, !.btnText = "GENERATE",
                 !.spinnerHidden = TRUE]

\* line.textContent = `> ${message}`
addLog(p, message) ==
  [p EXCEPT !.statusLog =
     Append(@, [className |-> "log-line", color |-> "",
                text |-> [message EXCEPT !.pre = <<"> ">> \o @]])]

showError(p, msg) ==
  LET logged == addLog(p, Message(<<"ERROR: ", msg>>, <<>>, <<>>))
  IN  [logged EXCEPT !.statusLog =
         Append(@, [className |-> "", color |-> "#ff5555",
                    text |-> Message(<<"> System Failure: ", msg>>, <<>>, <<>>)])]

\* setupViewer: constructorThrows is whether `new SkinViewer` throws
setupViewer(p, constructorThrows) ==
  LET cleared == [p EXCEPT !.resultHidden = FALSE,
                           !.skinViewerContainer = <<>>]
  IN  IF Len(cleared.currentSkins) = 0
      THEN [page |-> cleared, thrown |-> FALSE]
      ELSE IF constructorThrows
      THEN [page |-> cleared, thrown |-> TRUE]
      ELSE [page |-> [cleared EXCEPT
                        !.currentViewer =
                           [created |-> TRUE,
                            skin |-> cleared.currentSkins[1].imageUrl],
                        !.skinViewerContainer = <<"canvas">>],
            thrown |-> FALSE]

updateVariantDisplay(p) ==
  IF ~(p.currentVariantIndex + 1 \in 1..Len(p.currentSkins))
  THEN p
  ELSE LET skin == p.currentSkins[p.currentVariantIndex + 1]
       IN  [p EXCEPT
              !.skinTitle = skin.title,
              !.variantLabel = VariantTitle(p.currentVariantIndex + 1),
              !.downloadHref = skin.detailLink,
              !.currentViewer =
                 IF @.created THEN [@ EXCEPT !.skin = skin.imageUrl] ELSE @]

\* one button per skin; index is the value its onclick closes over
setupVariantControls(p) ==
  [p EXCEPT !.variantControls =
     [i \in 1..Len(p.currentSkins) |->
        [active      |-> (i - 1 = p.currentVariantIndex),
         textContent |-> toString(i),
         index       |-> i - 1]]]

\* fault: the handler stores the 1-based position
clickedIndexOffByOne(index) == index + 1

\* the index btn.onclick stores
clickedIndex(index) == index

\* btn.onclick of the button created for index
onclick(p, index) ==
  LET moved == updateVariantDisplay(
                 [p EXCEPT !.currentVariantIndex = clickedIndex(index)])
  IN  [moved EXCEPT !.variantControls =
         [i \in 1..Len(@) |-> [@[i] EXCEPT !.active = (i - 1 = index)]]]

(***************************************************************************)
(* handleGenerate.  A cycle is one call of handleGenerate suspended at     *)
(* `await Promise.all([simulationPromise, fetchPromise])`.                 *)
(***************************************************************************)
Slots == 1..MaxCycles

Idle ==
  [active |-> FALSE, query |-> <<>>, logged |-> 0, delayed |-> 0,
   fetched |-> FALSE, overlapped |-> FALSE]

InFlight == {c \in Slots : cycles[c].active}

\* fault: the empty-query return is missing
IgnoresNothing(value) == FALSE

\* const query = promptInput.value.trim(); if (!query) return
Ignored(value) == Trim(value) = <<>>

\* the for loop of runAISimulation has run out of lines
SimulationDone(cycle) == cycle.delayed = Len(AI_LOGS)

\* fault: the await does not wait for the narration
JoinSettledRace(cycle) == cycle.fetched

\* Promise.all([simulationPromise, fetchPromise]) has resolved
JoinSettled(cycle) == SimulationDone(cycle) /\ cycle.fetched

\* if (results && results.length > 0)
ResultsUsable(results) == Len(results) > 0

\* handleGenerate up to its await: the reset, the first narration line of
\* runAISimulation and the first line of fetchSkins
Begin(p, query) ==
  LET reset == [setLoading(p, TRUE) EXCEPT !.resultHidden = TRUE,
                                           !.statusLogHidden = FALSE,
                                           !.statusLog = <<>>]
      narrated == addLog(reset, Message(<<AI_LOGS[1]>>, <<>>, <<>>))
  IN  addLog(narrated,
             Message(<<"Initiating neural search for: ">>, query, <<"...">>))

\* the cycle a call of handleGenerate leaves suspended: fetchSkins has no
\* await that waits for anything, so it has returned when the task ends
Suspended(query, overlapped) ==
  [active |-> TRUE, query |-> query, logged |-> 1, delayed |-> 0,
   fetched |-> TRUE, overlapped |-> overlapped]

\* what fetchPromise of a cycle resolved to
Results(cycle) == fetchSkins(cycle.query)

\* handleGenerate after its await: the try body, catch and finally
Resume(p, results, constructorThrows) ==
  IF ResultsUsable(results)
  THEN LET installed == [p EXCEPT !.currentSkins = results,
                                  !.currentVariantIndex = 0]
           viewer == setupViewer(installed, constructorThrows)
       IN  IF viewer.thrown
           THEN setLoading(
                  showError(viewer.page,
                            "Neural Network Overload. Please try again."),
                  FALSE)
           ELSE setLoading(
                  setupVariantControls(updateVariantDisplay(viewer.page)),
                  FALSE)
  ELSE setLoading(
         showError(p, "Failed to generate skins. Try a different prompt."),
         FALSE)

\* the text is empty or made of whitespace only
IsBlank(value) == \A i \in 1..Len(value) : value[i] \in Whitespace

Event(type, blank, index) == [type |-> type, blank |-> blank, index |-> index]

\* one call of handleGenerate with the prompt input holding value
handleGenerate(value) ==
  /\ lastEvent' = Event("generate", IsBlank(value), -1)
  /\ UNCHANGED <<fetchPrompt, fetchResult>>
  /\ IF Ignored(value)
     THEN UNCHANGED <<pageVars, cycles, settledSinceStart>>
     ELSE /\ InFlight # Slots
          /\ LET c == CHOOSE free \in Slots :
                        /\ ~cycles[free].active
                        /\ \A lower \in Slots :
                             lower < free => cycles[lower].active
                 overlap == InFlight # {}
             IN  /\ Commit(Begin(Page, Trim(value)))
                 /\ cycles' =
                      [d \in Slots |->
                         IF d = c THEN Suspended(Trim(value), overlap)
                         ELSE IF cycles[d].active
                         THEN [cycles[d] EXCEPT !.overlapped = TRUE]
                         ELSE cycles[d]]
                 /\ settledSinceStart' = FALSE

\* generateBtn 'click': a disabled button dispatches no click
ClickGenerate(value) ==
  /\ ~btnDisabled
  /\ handleGenerate(value)

\* promptInput 'keypress': if (e.key === 'Enter') handleGenerate()
Keypress(key, value) ==
  /\ key = "Enter"
  /\ handleGenerate(value)

\* the timer of the delay() that cycle c awaits expires
TimerFires(c) ==
  /\ cycles[c].active
  /\ lastEvent' = Event("timer", FALSE, -1)
  /\ UNCHANGED <<fetchPrompt, fetchResult>>
  /\ LET cycle == cycles[c]
         more == cycle.logged < Len(AI_LOGS)
         woken == [cycle EXCEPT !.delayed = @ + 1,
                                !.logged = IF more THEN @ + 1 ELSE @]
         narrated == IF more
                     THEN addLog(Page, Message(<<AI_LOGS[cycle.logged + 1]>>,
                                               <<>>, <<>>))
                     ELSE Page
     IN  IF JoinSettled(woken)
         THEN /\ \E constructorThrows \in BOOLEAN :
                   Commit(Resume(narrated, Results(cycle), constructorThrows))
              /\ cycles' = [cycles EXCEPT ![c] = Idle]
              /\ settledSinceStart' = TRUE
         ELSE /\ Commit(narrated)
              /\ cycles' = [cycles EXCEPT ![c] = woken]
              /\ UNCHANGED settledSinceStart

\* the user clicks the variant button at position i (1-based) of variantControls
VariantClick(i) ==
  /\ ~resultHidden
  /\ i \in 1..Len(variantControls)
  /\ Commit(onclick(Page, variantControls[i].index))
  /\ lastEvent' = Event("variant", FALSE, i - 1)
  /\ UNCHANGED <<cycles, settledSinceStart, fetchPrompt, fetchResult>>

(***************************************************************************)
(* fetchSkins called on its own.                                           *)
(***************************************************************************)
NotCalled == [called |-> FALSE, accepted |-> 0, skins |-> <<>>]

\* a caller passes a text to fetchSkins
FetchInput(text) ==
  /\ fetchPrompt' = text
  /\ fetchResult' = NotCalled
  /\ UNCHANGED <<pageVars, cycles, lastEvent, settledSinceStart>>

\* fetchSkins(query) returns; handleGenerate passes it the trimmed, non-empty text
FetchCall ==
  /\ ~fetchResult.called
  /\ ~Ignored(fetchPrompt)
  /\ fetchResult' = [called   |-> TRUE,
                     accepted |-> Len(AcceptedSkins(Trim(fetchPrompt))),
                     skins    |-> fetchSkins(Trim(fetchPrompt))]
  /\ UNCHANGED <<fetchPrompt, pageVars, cycles, lastEvent, settledSinceStart>>

(***************************************************************************)
(* Specifications.                                                         *)
(***************************************************************************)
\* the globals as declared; the DOM as the page is served: nothing
\* generated yet, the result section and the log hidden, the button idle
InitPage ==
  /\ btnDisabled = FALSE
  /\ btnText = "GENERATE"
  /\ spinnerHidden = TRUE
  /\ statusLogHidden = TRUE
  /\ statusLog = <<>>
  /\ resultHidden = TRUE
  /\ currentSkins = <<>>
  /\ currentViewer = NoViewer
  /\ currentVariantIndex = 0
  /\ skinTitle = <<>>
  /\ variantLabel = <<>>
  /\ downloadHref = <<>>
  /\ skinViewerContainer = <<>>
  /\ variantControls = <<>>
  /\ cycles = [c \in Slots |-> Idle]
  /\ lastEvent = Event("load", FALSE, -1)
  /\ settledSinceStart = FALSE

Init ==
  /\ InitPage
  /\ fetchPrompt = <<>>
  /\ fetchResult = NotCalled

Next ==
  \/ \E value \in TextsUpTo(PromptAlphabet, MaxPromptLen) : ClickGenerate(value)
  \/ \E key \in {"Enter", "a"}, value \in TextsUpTo(PromptAlphabet, MaxPromptLen) :
       Keypress(key, value)
  \/ \E c \in Slots : TimerFires(c)
  \/ \E i \in 1..MaxVariants : VariantClick(i)

Spec == Init /\ [][Next]_vars

InitFetch ==
  /\ InitPage
  /\ fetchPrompt \in TextsUpTo(QueryAlphabet, MaxQueryLen)
  /\ fetchResult = NotCalled

NextFetch ==
  \/ \E text \in TextsUpTo(QueryAlphabet, MaxQueryLen) : FetchInput(text)
  \/ FetchCall

SpecFetch == InitFetch /\ [][NextFetch]_vars

(***************************************************************************)
(* Properties of fetchSkins (SpecFetch).                                   *)
(***************************************************************************)
\* the text with every blank taken out, computed without BaseName
Squeezed(text) == SelectSeq(text, LAMBDA ch : ch # " ")

VariantN(i) == <<"V", "a", "r", "i", "a", "n", "t", " ", Digits[i + 1]>>

\* C1: for every non-empty trimmed query the list fetchSkins returns has
\* length k with 1 <= k <= 3, pairwise distinct imageUrl values, and the
\* titles "Variant 1" .. "Variant k" in array order.
C1_ResultShape ==
  fetchResult.called =>
    LET skins == fetchResult.skins
        k == Len(skins)
    IN  /\ k \in 1..3
        /\ \A i, j \in 1..k : i # j => skins[i].imageUrl # skins[j].imageUrl
        /\ \A i \in 1..k : skins[i].title = VariantN(i)

C1_Witness ==
  /\ fetchResult.called
  /\ fetchPrompt = <<"a", " ", "_">>
  /\ Len(fetchResult.skins) = 3

\* the nine candidates the claim lists for a base name
ListedCandidates(B) ==
  << B,
     B \o <<"_">>,
     <<"T", "h", "e">> \o B,
     <<"I", "t", "z">> \o B,
     <<"R", "e", "a", "l">> \o B,
     B \o <<"1", "2", "3">>,
     B \o <<"P", "V", "P">>,
     B \o <<"G", "i", "r", "l">>,
     B \o <<"B", "o", "y">> >>

\* C2: the candidate list of a query is [B, B_, TheB, ItzB, RealB, B123,
\* BPVP, BGirl, BBoy], B being the query without whitespace, and fetchSkins
\* returns exactly 3 records built from B, B_ and TheB, in that order.
C2_FirstThreeCandidates ==
  fetchResult.called =>
    LET B == Squeezed(fetchPrompt)
        skins == fetchResult.skins
    IN  /\ candidates(BaseName(Trim(fetchPrompt))) = ListedCandidates(B)
        /\ Len(skins) = 3
        /\ \A i \in 1..3 :
             /\ i <= Len(skins)
             /\ skins[i].imageUrl = MinotarPrefix \o ListedCandidates(B)[i]
             /\ skins[i].detailLink = NameMcPrefix \o ListedCandidates(B)[i]
             /\ skins[i].title = VariantN(i)

C2_Witness ==
  /\ fetchResult.called
  /\ fetchPrompt = <<"a", " ", "b">>
  /\ fetchResult.skins[2].imageUrl = MinotarPrefix \o <<"a", "b", "_">>

\* C10: for every non-empty trimmed query the first three candidates have
\* distinct locators, so the loop accepts exactly 3 records, the emergency
\* fallback is not taken and the caller never sees an empty result.
C10_AlwaysThree ==
  fetchResult.called =>
    LET first == candidates(BaseName(Trim(fetchPrompt)))
    IN  /\ \A i, j \in 1..3 :
             i # j => MinotarPrefix \o first[i] # MinotarPrefix \o first[j]
        /\ fetchResult.accepted = 3
        /\ Len(fetchResult.skins) = 3
        /\ ResultsUsable(fetchResult.skins)

C10_Witness ==
  /\ fetchResult.called
  /\ fetchPrompt = <<" ", "_", " ">>
  /\ fetchResult.accepted = 3

(***************************************************************************)
(* Properties of the page (Spec).                                          *)
(***************************************************************************)
\* a task reveals results: it un-hides the result section, replaces
\* currentSkins, the viewer canvas or the set of variant buttons
Reveals ==
  \/ resultHidden /\ ~resultHidden'
  \/ currentSkins' # currentSkins
  \/ skinViewerContainer' # skinViewerContainer
  \/ Len(variantControls') # Len(variantControls)

\* C3: results are revealed only by a cycle whose narration (all six lines and
\* all six delays) and whose resolution have both finished: the revealing task
\* is the expiry of the sixth delay of a cycle that has logged six lines and
\* whose fetchSkins has returned.
C3_RevealAfterNarration ==
  [][Reveals =>
       \E c \in Slots :
         /\ cycles[c].active
         /\ cycles[c].logged = 6
         /\ cycles[c].delayed = 5
         /\ cycles[c].fetched
         /\ ~cycles'[c].active]_vars

C3_Witness ==
  /\ ~resultHidden
  /\ Len(currentSkins) = 3
  /\ settledSinceStart
  /\ lastEvent.type = "timer"
  /\ InFlight = {}

\* the page after the task shows the result set r as just installed
ShowsNext(r) ==
  /\ currentSkins' = r
  /\ currentVariantIndex' = 0
  /\ currentViewer' = [created |-> TRUE, skin |-> r[1].imageUrl]
  /\ skinViewerContainer' = <<"canvas">>
  /\ Len(variantControls') = Len(r)
  /\ \A i \in 1..Len(variantControls') : variantControls'[i].active <=> i = 1
  /\ skinTitle' = r[1].title
  /\ downloadHref' = r[1].detailLink

\* C4: when two cycles overlap, the one that completes last leaves the page
\* showing its own result set entirely: currentSkins, index 0, the viewer and
\* the controls all built from it.
C4_LastCycleWins ==
  [][\A c \in Slots :
       (/\ cycles[c].active
        /\ cycles[c].overlapped
        /\ ~cycles'[c].active
        /\ \A d \in Slots : ~cycles'[d].active)
       => ShowsNext(fetchSkins(cycles[c].query))]_vars

\* a task reports a failure: it appends the error-styled line
ReportsFailure ==
  /\ Len(statusLog') > Len(statusLog)
  /\ statusLog'[Len(statusLog')].color = "#ff5555"

\* C5: a failing cycle is reported in the log and leaves the page idle with
\* no partial result state: loading cleared, trigger enabled, currentSkins
\* and the visibility of the result section as they were.
C5_FailureLeavesNoPartialState ==
  [][ReportsFailure =>
       /\ ~btnDisabled'
       /\ btnText' = "GENERATE"
       /\ spinnerHidden'
       /\ currentSkins' = currentSkins
       /\ resultHidden' = resultHidden]_vars

\* C6: a trigger with empty or whitespace-only input starts no cycle and
\* leaves the page untouched: log, loading state, result section,
\* currentSkins, currentVariantIndex and viewer.
C6_BlankInputIgnored ==
  [][(lastEvent'.type = "generate" /\ lastEvent'.blank)
       => UNCHANGED <<pageVars, cycles, settledSinceStart>>]_vars

C6_Witness ==
  /\ lastEvent.type = "generate"
  /\ lastEvent.blank
  /\ btnDisabled
  /\ Len(statusLog) = 3
  /\ InFlight # {}

\* C7: currentVariantIndex is a valid index of currentSkins once a result set
\* exists; after a click on the control for index i, currentVariantIndex = i,
\* the page shows items[i], and exactly the control at i is active.
C7_IndexValid ==
  /\ currentSkins # <<>> =>
       /\ 0 <= currentVariantIndex
       /\ currentVariantIndex < Len(currentSkins)
  /\ lastEvent.type = "variant" =>
       /\ currentVariantIndex = lastEvent.index
       /\ lastEvent.index + 1 \in 1..Len(currentSkins)
       /\ skinTitle = currentSkins[lastEvent.index + 1].title
       /\ downloadHref = currentSkins[lastEvent.index + 1].detailLink
       /\ \A j \in 1..Len(variantControls) :
            variantControls[j].active <=> (j - 1 = lastEvent.index)

C7_Witness ==
  /\ lastEvent.type = "variant"
  /\ currentVariantIndex = 2
  /\ Len(currentSkins) = 3
  /\ variantControls[3].active

\* C8: whenever a result set is displayed, the title, the variant label, the
\* profile link and the texture in the viewer are those of
\* currentSkins[currentVariantIndex].
C8_DisplayInSync ==
  ~resultHidden =>
    /\ currentVariantIndex + 1 \in 1..Len(currentSkins)
    /\ skinTitle = currentSkins[currentVariantIndex + 1].title
    /\ variantLabel = VariantN(currentVariantIndex + 1)
    /\ downloadHref = currentSkins[currentVariantIndex + 1].detailLink
    /\ currentViewer.created
    /\ currentViewer.skin = currentSkins[currentVariantIndex + 1].imageUrl

Loading ==
  /\ btnDisabled
  /\ btnText = "PROCESSING"

\* C9 as stated: whenever a cycle is in flight the trigger is in the loading
\* state and the result section is hidden, also when cycles overlap.
C9_LoadingWhileInFlight ==
  InFlight # {} => Loading /\ resultHidden

\* C9 amended: whenever a cycle is in flight and no cycle has left its finally
\* block since the latest cycle started, the trigger is in the loading state
\* and the result section is hidden.
C9_LoadingUntilFirstSettles ==
  (InFlight # {} /\ ~settledSinceStart) => Loading /\ resultHidden

C9_Witness ==
  /\ Cardinality(InFlight) = 2
  /\ ~settledSinceStart
  /\ Loading
  /\ resultHidden

====
